---------------------------- MODULE Spec2Model ----------------------------
(***************************************************************************)
(* A model of three parts of goko / pointcloud:                            *)
(*   - the bounded coverage-index plugin (goko/src/plugins/utils.rs),      *)
(*   - the hash glued cloud (pointcloud/src/glued_data_cloud.rs),          *)
(*   - the label summaries (pointcloud/src/summaries/mod.rs).              *)
(* Each part has its own specification (SpecTree, SpecGlue, SpecSum); the  *)
(* variables of the other parts stay idle.                                 *)
(***************************************************************************)
EXTENDS Integers, Sequences, FiniteSets, TLC

VARIABLES
    tree,          \* topology of the cover tree seen through the reader
    parameters,    \* CoverageIndexesParams: [max |-> budget]
    node_plugins,  \* plugin storage of the tree: address -> Option<CoverageIndexes>
    computed,      \* nodes the pass has already visited
    data_sources,  \* HashGluedCloud.data_sources
    addresses,     \* HashGluedCloud.addresses
    call,          \* the last call made on the glued cloud and what it returned
    sums,          \* the summaries being aggregated (slot 0: the whole sequence)
    hist           \* the lookup results added so far, with the slot each went to

vars == <<tree, parameters, node_plugins, computed,
          data_sources, addresses, call, sums, hist>>

treeVars == <<tree, parameters, node_plugins, computed>>
glueVars == <<data_sources, addresses, call>>
sumVars  == <<sums, hist>>

\* ------------------------------------------------------------------ bounds
MaxNodes  == 4   \* nodes of a tree
MaxSing   == 1   \* singletons of one node
MaxBudget == 4   \* largest budget tried
MaxSources == 3  \* data sources glued together
MaxPoints  == 3  \* points of all the sources together
MaxIdx     == 2  \* length of the index list given to label_summary
MaxAdds    == 3  \* lookup results added to the summaries of one run
MaxParts   == 2  \* summaries a sequence of lookups is split over

\* ------------------------------------------------------------ Option<T>
None == <<>>
Some(x) == <<x>>
IsSome(o) == Len(o) = 1
Unwrap(o) == o[1]

\* ------------------------------------------------------------- helpers
RECURSIVE SumSeq(_)
SumSeq(s) == IF s = <<>> THEN 0 ELSE Head(s) + SumSeq(Tail(s))

Min(S) == CHOOSE x \in S : \A y \in S : x <= y

RECURSIVE Ascending(_)
Ascending(S) == IF S = {} THEN <<>> ELSE <<Min(S)>> \o Ascending(S \ {Min(S)})

\* ======================================================================
\* The cover tree as the plugin sees it (CoverNode, CoverTreeReader)
\* ======================================================================
\* A tree is [n, parent, sing]: nodes 1..n, node 1 the root, parent[c] < c,
\* sing[c] singletons at node c.  The first child of a routing node is its
\* nested self-child (same center, next finer scale).
Trees ==
    UNION { { [n |-> n, parent |-> p, sing |-> s] :
                p \in { q \in [1..n -> 0..n] :
                          /\ q[1] = 0
                          /\ \A c \in 2..n : q[c] >= 1 /\ q[c] < c },
                s \in [1..n -> 0..MaxSing] } : n \in 1..MaxNodes }

Nodes(t) == 1..t.n
Kids(t, p) == { c \in Nodes(t) : t.parent[c] = p }
IsLeaf(t, n) == Kids(t, n) = {}
NestedChild(t, p) == Min(Kids(t, p))
OrdinaryChildren(t, p) == Ascending(Kids(t, p) \ {NestedChild(t, p)})

RECURSIVE Depth(_, _)
Depth(t, n) == IF n = 1 THEN 0 ELSE 1 + Depth(t, t.parent[n])

scale_index(t, n) == 0 - Depth(t, n)

RECURSIVE center_index(_, _)
center_index(t, n) ==
    IF n = 1 THEN 1
    ELSE IF n = NestedChild(t, t.parent[n]) THEN center_index(t, t.parent[n])
    ELSE n

Address(t, n) == <<scale_index(t, n), center_index(t, n)>>
AddressesOf(t) == { Address(t, n) : n \in Nodes(t) }

\* The singleton points of node n: point indexes no node is centered on.
singletons(t, n) ==
    [k \in 1..t.sing[n] |-> MaxNodes + (n - 1) * MaxSing + k]

\* coverage_count: a leaf covers its singletons and its center; a routing
\* node covers its singletons and what its children (the nested one
\* included) cover.
RECURSIVE coverage_count(_, _)
coverage_count(t, n) ==
    IF IsLeaf(t, n) THEN t.sing[n] + 1
    ELSE t.sing[n]
         + SumSeq([i \in 1..Cardinality(Kids(t, n)) |->
                     coverage_count(t, Ascending(Kids(t, n))[i])])

\* children(): None for a leaf, Some((nested_scale, child_addresses)).
children(t, n) ==
    IF IsLeaf(t, n) THEN None
    ELSE Some([nested_scale |-> scale_index(t, n) - 1,
               child_addresses |->
                   [i \in 1..Len(OrdinaryChildren(t, n)) |->
                       Address(t, OrdinaryChildren(t, n)[i])]])

CoverNode(t, n) ==
    [center_index   |-> center_index(t, n),
     singletons     |-> singletons(t, n),
     coverage_count |-> coverage_count(t, n),
     children       |-> children(t, n)]

\* get_node_plugin_and(addr, f): the stored value, if the node has one.
get_node_plugin_and(my_tree, addr) ==
    IF addr \in DOMAIN my_tree THEN my_tree[addr] ELSE None

\* ======================================================================
\* GokoCoverageIndexes::node_component
\* ======================================================================
\* indexes.extend(p.point_indexes()) inside the closure: runs only when the
\* reader has a value at the address.
ExtendWith(indexes, my_tree, addr) ==
    IF IsSome(get_node_plugin_and(my_tree, addr))
    THEN indexes \o Unwrap(get_node_plugin_and(my_tree, addr))
    ELSE indexes

RECURSIVE ExtendWithAll(_, _, _)
ExtendWithAll(indexes, my_tree, child_addresses) ==
    IF child_addresses = <<>> THEN indexes
    ELSE ExtendWithAll(ExtendWith(indexes, my_tree, Head(child_addresses)),
                       my_tree, Tail(child_addresses))

\* node_component with the budget test written <= instead of <.
node_component_le(params, my_node, my_tree) ==
    IF my_node.coverage_count <= params.max
    THEN IF IsSome(my_node.children)
         THEN LET ch == Unwrap(my_node.children)
                  withNested ==
                      ExtendWith(my_node.singletons, my_tree,
                                 <<ch.nested_scale, my_node.center_index>>)
              IN Some(ExtendWithAll(withNested, my_tree, ch.child_addresses))
         ELSE Some(Append(my_node.singletons, my_node.center_index))
    ELSE None

\* node_component pushing the center of a routing node as well.
node_component_center(params, my_node, my_tree) ==
    IF my_node.coverage_count < params.max
    THEN IF IsSome(my_node.children)
         THEN LET ch == Unwrap(my_node.children)
                  withNested ==
                      ExtendWith(Append(my_node.singletons, my_node.center_index),
                                 my_tree,
                                 <<ch.nested_scale, my_node.center_index>>)
              IN Some(ExtendWithAll(withNested, my_tree, ch.child_addresses))
         ELSE Some(Append(my_node.singletons, my_node.center_index))
    ELSE None

\* node_component testing the number of its own singletons against the
\* budget instead of the coverage count.
node_component_singletons(params, my_node, my_tree) ==
    IF Len(my_node.singletons) < params.max
    THEN IF IsSome(my_node.children)
         THEN LET ch == Unwrap(my_node.children)
                  withNested ==
                      ExtendWith(my_node.singletons, my_tree,
                                 <<ch.nested_scale, my_node.center_index>>)
              IN Some(ExtendWithAll(withNested, my_tree, ch.child_addresses))
         ELSE Some(Append(my_node.singletons, my_node.center_index))
    ELSE None

\* node_component gathering, besides its children, whatever the reader
\* holds for the other nodes of its own scale.
node_component_level(params, my_node, my_tree) ==
    IF my_node.coverage_count < params.max
    THEN IF IsSome(my_node.children)
         THEN LET ch == Unwrap(my_node.children)
                  withNested ==
                      ExtendWith(my_node.singletons, my_tree,
                                 <<ch.nested_scale, my_node.center_index>>)
                  level == Ascending({ a[2] : a \in { b \in DOMAIN my_tree :
                                          b[1] = ch.nested_scale + 1 } })
              IN Some(ExtendWithAll(
                        ExtendWithAll(withNested, my_tree, ch.child_addresses),
                        my_tree,
                        [i \in 1..Len(level) |-> <<ch.nested_scale + 1, level[i]>>]))
         ELSE Some(Append(my_node.singletons, my_node.center_index))
    ELSE None

node_component(params, my_node, my_tree) ==
    IF my_node.coverage_count < params.max
    THEN IF IsSome(my_node.children)
         THEN LET ch == Unwrap(my_node.children)
                  withNested ==
                      ExtendWith(my_node.singletons, my_tree,
                                 <<ch.nested_scale, my_node.center_index>>)
              IN Some(ExtendWithAll(withNested, my_tree, ch.child_addresses))
         ELSE Some(Append(my_node.singletons, my_node.center_index))
    ELSE None

\* ------------------------------------------------------- idle components
TreeIdle == /\ tree = <<>> /\ parameters = <<>>
            /\ node_plugins = <<>> /\ computed = {}
GlueIdle == data_sources = <<>> /\ addresses = <<>> /\ call = <<>>
SumIdle  == sums = <<>> /\ hist = <<>>

\* ======================================================================
\* SpecTree: a children-before-parent pass of the plugin over a tree
\* ======================================================================
InitTree ==
    /\ tree \in Trees
    /\ parameters \in { [max |-> b] : b \in 0..MaxBudget }
    /\ node_plugins = [a \in AddressesOf(tree) |-> None]
    /\ computed = {}
    /\ GlueIdle /\ SumIdle

\* The pass driver visits a node once all its children are final and stores
\* what node_component returns under the node's address.
ComputeNode(n) ==
    /\ n \in Nodes(tree) \ computed
    /\ Kids(tree, n) \subseteq computed
    /\ node_plugins' =
          [node_plugins EXCEPT ![Address(tree, n)] =
              node_component(parameters, CoverNode(tree, n), node_plugins)]
    /\ computed' = computed \cup {n}
    /\ UNCHANGED <<tree, parameters, glueVars, sumVars>>

NextTree == \E n \in 1..MaxNodes : ComputeNode(n)

SpecTree == InitTree /\ [][NextTree]_vars

PassDone == tree /= <<>> /\ computed = Nodes(tree)


\* C1: after a full children-before-parent pass with budget max, a node with
\* coverage_count < max holds a value of exactly coverage_count indexes and
\* a node with coverage_count >= max holds none.
C1_CoverageLengths ==
    PassDone =>
        \A n \in Nodes(tree) :
            LET v == node_plugins[Address(tree, n)]
                c == coverage_count(tree, n)
            IN IF c < parameters.max
               THEN IsSome(v) /\ Len(Unwrap(v)) = c
               ELSE v = None

\* A finished pass over a tree where a routing node with an ordinary child
\* is below the budget and its parent is not.
C1_Witness ==
    /\ PassDone
    /\ \E n \in Nodes(tree) :
          /\ Cardinality(Kids(tree, n)) >= 2
          /\ coverage_count(tree, n) < parameters.max
          /\ IsSome(node_plugins[Address(tree, n)])
          /\ n /= 1
          /\ coverage_count(tree, 1) >= parameters.max
          /\ node_plugins[Address(tree, 1)] = None


\* ======================================================================
\* PointCloudResult<T> and the lookup results a summary is fed
\* ======================================================================
Ok(x) == <<"Ok", x>>
Err(e) == <<"Err", e>>
IsOk(r) == r[1] = "Ok"
Payload(r) == r[2]

\* ======================================================================
\* SmallCatSummary (summaries/mod.rs)
\* ======================================================================
SmallCatSummary_default == [items |-> <<>>, nones |-> 0, errors |-> 0]

\* Position of the first stored pair whose value equals val, 0 if none: the
\* scan `for (stored_val, totals) in self.items.iter_mut()` up to its break.
FirstMatch(items, val) ==
    IF \E i \in 1..Len(items) : items[i][1] = val
    THEN Min({ i \in 1..Len(items) : items[i][1] = val })
    ELSE 0

cat_add(self, v) ==
    IF IsOk(v)
    THEN IF IsSome(Payload(v))
         THEN LET val == Unwrap(Payload(v))
                  at == FirstMatch(self.items, val)
                  added_to_existing == at > 0
                  scanned == IF added_to_existing
                             THEN [self.items EXCEPT ![at] = <<@[1], @[2] + 1>>]
                             ELSE self.items
              IN IF added_to_existing
                 THEN [self EXCEPT !.items = Append(scanned, <<val, 1>>)]
                 ELSE [self EXCEPT !.items = scanned]
         ELSE [self EXCEPT !.nones = @ + 1]
    ELSE [self EXCEPT !.errors = @ + 1]

RECURSIVE cat_combine_items(_, _)
cat_combine_items(items, other_items) ==
    IF other_items = <<>> THEN items
    ELSE LET val == Head(other_items)[1]
             count == Head(other_items)[2]
             at == FirstMatch(items, val)
             merged == IF at > 0
                       THEN [items EXCEPT ![at] = <<@[1], @[2] + count>>]
                       ELSE Append(items, <<val, count>>)
         IN cat_combine_items(merged, Tail(other_items))

cat_combine(self, other) ==
    [self EXCEPT !.items = cat_combine_items(self.items, other.items)]

cat_count(self) == SumSeq([i \in 1..Len(self.items) |-> self.items[i][2]])
cat_nones(self) == self.nones
cat_errors(self) == self.nones

\* The stored count of one category (0 when it is not stored), summed over
\* every pair that holds it.
cat_count_of(self, val) ==
    SumSeq([i \in 1..Len(self.items) |->
              IF self.items[i][1] = val THEN self.items[i][2] ELSE 0])


\* ======================================================================
\* The data sources of a glued cloud (any D: LabeledCloud)
\* ======================================================================
\* A source is [points, labels]: the point stored at each local index and
\* what its label lookup returns there.  Every stored point is different:
\* the point at local index j of the k-th source is <<k, j>>.
\* A label lookup is a present category, an absence or a failure.
Categories == {"A", "B"}
LabelLookups ==
    { Ok(Some(c)) : c \in Categories } \cup { Ok(None), Err("label source") }
\* What the sources of the glued clouds tried here hold as labels.
SourceLabelLookups == { Ok(Some("A")), Ok(None), Err("label source") }

LengthLists ==
    UNION { { l \in [1..n -> 0..MaxPoints] : SumSeq(l) <= MaxPoints } :
              n \in 0..MaxSources }

SourcesOf(l, flat) ==
    [k \in 1..Len(l) |->
        [points |-> [j \in 1..l[k] |-> <<k - 1, j - 1>>],
         labels |-> [j \in 1..l[k] |-> flat[SumSeq(SubSeq(l, 1, k - 1)) + j]]]]

SourceLists ==
    UNION { { SourcesOf(l, flat) : flat \in [1..SumSeq(l) -> SourceLabelLookups] } :
              l \in LengthLists }

src_len(source) == Len(source.points)
src_is_empty(source) == src_len(source) = 0
src_point(source, j) ==
    IF j < src_len(source) THEN Ok(source.points[j + 1])
    ELSE Err([index |-> j, reason |-> "out of range"])
src_label(source, j) ==
    IF j < src_len(source) THEN source.labels[j + 1]
    ELSE Err([index |-> j, reason |-> "out of range"])

\* ======================================================================
\* HashGluedCloud (glued_data_cloud.rs)
\* ======================================================================
EmptyMap == [x \in {} |-> x]
Insert(map, key, value) ==
    [x \in DOMAIN map \cup {key} |-> IF x = key THEN value ELSE map[x]]

\* The two nested loops of new(): i is the source ordinal (from 0), j the
\* local index, pi the next global index.
RECURSIVE new_loop_pi(_, _, _, _, _)
new_loop_pi(sources, i, j, pi, map) ==
    IF i >= Len(sources) THEN map
    ELSE IF j >= src_len(sources[i + 1])
         THEN new_loop_pi(sources, i + 1, 0, pi, map)
         ELSE new_loop_pi(sources, i, j + 1, pi + 1, Insert(map, pi, <<i, pi>>))

RECURSIVE new_loop(_, _, _, _, _)
new_loop(sources, i, j, pi, map) ==
    IF i >= Len(sources) THEN map
    ELSE IF j >= src_len(sources[i + 1])
         THEN new_loop(sources, i + 1, 0, pi, map)
         ELSE new_loop(sources, i, j + 1, pi + 1, Insert(map, pi, <<i, j>>))

HashGluedCloud_new(sources) ==
    [addresses |-> new_loop(sources, 0, 0, 0, EmptyMap),
     data_sources |-> sources]

\* Every operation returns [ret, accessed]: what the caller gets, and the
\* (source ordinal, local index) pairs it read from the sources.
get_address(self, pn) ==
    IF pn \in DOMAIN self.addresses
    THEN Ok(self.addresses[pn])
    ELSE Err([index |-> pn, reason |-> "address not found"])

\* point() handing the global index to the source.
point_global(self, pn) ==
    LET a == get_address(self, pn)
    IN IF ~IsOk(a) THEN [ret |-> a, accessed |-> <<>>]
       ELSE [ret |-> src_point(self.data_sources[Payload(a)[1] + 1], pn),
             accessed |-> <<Payload(a)>>]

point(self, pn) ==
    LET a == get_address(self, pn)
    IN IF ~IsOk(a) THEN [ret |-> a, accessed |-> <<>>]
       ELSE [ret |-> src_point(self.data_sources[Payload(a)[1] + 1],
                               Payload(a)[2]),
             accessed |-> <<Payload(a)>>]

len(self) ==
    SumSeq([k \in 1..Len(self.data_sources) |-> src_len(self.data_sources[k])])

\* is_empty() without the test for an empty list of sources.
is_empty_all(self) ==
    \A k \in 1..Len(self.data_sources) : src_is_empty(self.data_sources[k])

is_empty(self) ==
    IF Len(self.data_sources) = 0 THEN FALSE
    ELSE \A k \in 1..Len(self.data_sources) :
            src_is_empty(self.data_sources[k])

label(self, pn) ==
    LET a == get_address(self, pn)
    IN IF ~IsOk(a) THEN [ret |-> a, accessed |-> <<>>]
       ELSE [ret |-> src_label(self.data_sources[Payload(a)[1] + 1],
                               Payload(a)[2]),
             accessed |-> <<Payload(a)>>]

\* The loop of label_summary passing over an index it cannot resolve.
RECURSIVE label_summary_loop_skip(_, _, _, _)
label_summary_loop_skip(self, pns, summary, accessed) ==
    IF pns = <<>> THEN [ret |-> Ok(summary), accessed |-> accessed]
    ELSE LET a == get_address(self, Head(pns))
         IN IF ~IsOk(a)
            THEN label_summary_loop_skip(self, Tail(pns), summary, accessed)
            ELSE label_summary_loop_skip(
                    self, Tail(pns),
                    cat_add(summary,
                            src_label(self.data_sources[Payload(a)[1] + 1],
                                      Payload(a)[2])),
                    Append(accessed, Payload(a)))

RECURSIVE label_summary_loop(_, _, _, _)
label_summary_loop(self, pns, summary, accessed) ==
    IF pns = <<>> THEN [ret |-> Ok(summary), accessed |-> accessed]
    ELSE LET a == get_address(self, Head(pns))
         IN IF ~IsOk(a) THEN [ret |-> a, accessed |-> accessed]
            ELSE label_summary_loop(
                    self, Tail(pns),
                    cat_add(summary,
                            src_label(self.data_sources[Payload(a)[1] + 1],
                                      Payload(a)[2])),
                    Append(accessed, Payload(a)))

label_summary(self, pns) ==
    label_summary_loop(self, pns, SmallCatSummary_default, <<>>)

\* ======================================================================
\* SpecGlue: calls on a glued cloud built by new()
\* ======================================================================
Self == [addresses |-> addresses, data_sources |-> data_sources]

PointIndexes == 0..MaxPoints
IndexLists == UNION { [1..m -> PointIndexes] : m \in 0..MaxIdx }

NoCall == [op |-> "none", arg |-> <<>>, ret |-> <<>>, accessed |-> <<>>]

InitGlue ==
    /\ data_sources \in SourceLists
    /\ addresses = HashGluedCloud_new(data_sources).addresses
    /\ call = NoCall
    /\ TreeIdle /\ SumIdle

\* The cloud is only read (&self): a call leaves it as it was.  One call is
\* followed at a time; its result is dropped before the next one.
Returned(op, arg, ret, accessed) ==
    /\ call.op = "none"
    /\ call' = [op |-> op, arg |-> arg, ret |-> ret, accessed |-> accessed]
    /\ UNCHANGED <<data_sources, addresses, treeVars, sumVars>>

DropResult ==
    /\ call.op /= "none"
    /\ call' = NoCall
    /\ UNCHANGED <<data_sources, addresses, treeVars, sumVars>>

CallGetAddress(pn) ==
    Returned("get_address", pn, get_address(Self, pn), <<>>)
CallPoint(pn) ==
    Returned("point", pn, point(Self, pn).ret, point(Self, pn).accessed)
CallLen == Returned("len", <<>>, len(Self), <<>>)
CallIsEmpty == Returned("is_empty", <<>>, is_empty(Self), <<>>)
CallLabel(pn) ==
    Returned("label", pn, label(Self, pn).ret, label(Self, pn).accessed)
CallLabelSummary(pns) ==
    Returned("label_summary", pns, label_summary(Self, pns).ret,
             label_summary(Self, pns).accessed)

NextGlue ==
    \/ \E pn \in PointIndexes : CallGetAddress(pn)
    \/ \E pn \in PointIndexes : CallPoint(pn)
    \/ CallLen
    \/ CallIsEmpty
    \/ \E pn \in PointIndexes : CallLabel(pn)
    \/ \E pns \in IndexLists : CallLabelSummary(pns)
    \/ DropResult

SpecGlue == InitGlue /\ [][NextGlue]_vars


\* ---------------------------------------------------------------- C2
SourceLengths == [k \in 1..Len(data_sources) |-> src_len(data_sources[k])]
TotalLength == SumSeq(SourceLengths)
\* The points of the first k sources together.
Before(k) == SumSeq(SubSeq(SourceLengths, 1, k))
\* The source ordinal (from 0) whose range of global indexes holds i.
OrdinalOf(i) ==
    CHOOSE k \in 0..(Len(data_sources) - 1) : Before(k) <= i /\ i < Before(k + 1)
Concatenated(i) == <<OrdinalOf(i), i - Before(OrdinalOf(i))>>

\* C2: the address map built by new() has domain [0, l_0+...+l_{n-1}), is
\* injective, and sends global index i to (k, j) with k the one source whose
\* range holds i and j the offset of i in it; get_address(i) returns that pair.
C2_AddressMap ==
    /\ DOMAIN addresses = 0..(TotalLength - 1)
    /\ \A a, b \in DOMAIN addresses : addresses[a] = addresses[b] => a = b
    /\ \A i \in DOMAIN addresses :
          /\ Cardinality({ k \in 0..(Len(data_sources) - 1) :
                             Before(k) <= i /\ i < Before(k + 1) }) = 1
          /\ addresses[i] = Concatenated(i)
    /\ (call.op = "get_address" /\ call.arg < TotalLength)
          => call.ret = Ok(Concatenated(call.arg))

\* get_address has answered for an index at offset 1 of the third source,
\* the second source being empty.
C2_Witness ==
    /\ call.op = "get_address"
    /\ Len(data_sources) = 3
    /\ src_len(data_sources[1]) = 1
    /\ src_len(data_sources[2]) = 0
    /\ call.arg = 2
    /\ call.ret = Ok(<<2, 1>>)

\* ---------------------------------------------------------------- C3
\* C3: for a global index i below len(), point(i) and label(i) return what
\* source k returns at local index j, (k, j) being the address of i, and
\* read no other source.
C3_PointAndLabelDelegate ==
    /\ (call.op = "point" /\ call.arg < TotalLength) =>
          /\ call.ret = src_point(data_sources[OrdinalOf(call.arg) + 1],
                                  call.arg - Before(OrdinalOf(call.arg)))
          /\ call.ret = Ok(Concatenated(call.arg))
          /\ call.accessed = <<Concatenated(call.arg)>>
    /\ (call.op = "label" /\ call.arg < TotalLength) =>
          /\ call.ret = src_label(data_sources[OrdinalOf(call.arg) + 1],
                                  call.arg - Before(OrdinalOf(call.arg)))
          /\ call.accessed = <<Concatenated(call.arg)>>

\* point() has answered for the last point of a second source.
C3_Witness ==
    /\ call.op = "point"
    /\ Len(data_sources) = 2
    /\ src_len(data_sources[1]) = 1
    /\ src_len(data_sources[2]) = 2
    /\ call.arg = 2
    /\ call.ret = Ok(<<1, 1>>)
    /\ call.accessed = << <<1, 1>> >>

\* ---------------------------------------------------------------- C4
\* C4: is_empty() is false for a cloud of no sources (whose len() is 0) and,
\* with at least one source, true exactly when every source is empty.
C4_IsEmpty ==
    /\ call.op = "is_empty" =>
          call.ret = (/\ Len(data_sources) >= 1
                      /\ \A k \in 1..Len(data_sources) :
                            src_is_empty(data_sources[k]))
    /\ (call.op = "len" /\ Len(data_sources) = 0) => call.ret = 0

\* is_empty() has answered false for a cloud of no sources.
C4_Witness ==
    /\ call.op = "is_empty"
    /\ Len(data_sources) = 0
    /\ call.ret = FALSE

\* is_empty() has answered true for a cloud of two empty sources.
C4_WitnessAllEmpty ==
    /\ call.op = "is_empty"
    /\ Len(data_sources) = 2
    /\ TotalLength = 0
    /\ call.ret = TRUE


\* ======================================================================
\* VecSummary (summaries/mod.rs); integers stand for the f32 components
\* ======================================================================
VecSummary_default ==
    [moment1 |-> <<>>, moment2 |-> <<>>, count |-> 0, nones |-> 0, errors |-> 0]

\* self.iter_mut().zip(other).for_each(|(m, x)| *m += x): the components of
\* self that have a partner in other grow, the rest stay.
ZipAdd(mine, other) ==
    [d \in 1..Len(mine) |-> IF d <= Len(other) THEN mine[d] + other[d]
                            ELSE mine[d]]

Squares(val) == [d \in 1..Len(val) |-> val[d] * val[d]]

\* add whose first vector goes into moment2 unsquared.
vec_add_unsquared(self, v) ==
    IF IsOk(v)
    THEN IF IsSome(Payload(v))
         THEN LET val == Unwrap(Payload(v))
              IN IF self.moment1 /= <<>>
                 THEN IF Len(self.moment1) = Len(val)
                      THEN [self EXCEPT !.moment1 = ZipAdd(@, val),
                                        !.moment2 = ZipAdd(@, Squares(val)),
                                        !.count = @ + 1]
                      ELSE [self EXCEPT !.errors = @ + 1]
                 ELSE [self EXCEPT !.moment1 = @ \o val,
                                   !.moment2 = @ \o val]
         ELSE [self EXCEPT !.nones = @ + 1]
    ELSE [self EXCEPT !.errors = @ + 1]

\* add without the test of the width.
vec_add_any_width(self, v) ==
    IF IsOk(v)
    THEN IF IsSome(Payload(v))
         THEN LET val == Unwrap(Payload(v))
              IN IF self.moment1 /= <<>>
                 THEN [self EXCEPT !.moment1 = ZipAdd(@, val),
                                   !.moment2 = ZipAdd(@, Squares(val)),
                                   !.count = @ + 1]
                 ELSE [self EXCEPT !.moment1 = @ \o val,
                                   !.moment2 = @ \o Squares(val)]
         ELSE [self EXCEPT !.nones = @ + 1]
    ELSE [self EXCEPT !.errors = @ + 1]

vec_add(self, v) ==
    IF IsOk(v)
    THEN IF IsSome(Payload(v))
         THEN LET val == Unwrap(Payload(v))
              IN IF self.moment1 /= <<>>
                 THEN IF Len(self.moment1) = Len(val)
                      THEN [self EXCEPT !.moment1 = ZipAdd(@, val),
                                        !.moment2 = ZipAdd(@, Squares(val)),
                                        !.count = @ + 1]
                      ELSE [self EXCEPT !.errors = @ + 1]
                 ELSE [self EXCEPT !.moment1 = @ \o val,
                                   !.moment2 = @ \o Squares(val)]
         ELSE [self EXCEPT !.nones = @ + 1]
    ELSE [self EXCEPT !.errors = @ + 1]

vec_combine(self, other) ==
    [self EXCEPT !.moment1 = ZipAdd(@, other.moment1),
                 !.moment2 = ZipAdd(@, other.moment2),
                 !.count = @ + other.count,
                 !.nones = @ + other.nones,
                 !.errors = @ + other.errors]

vec_count(self) == self.count
vec_nones(self) == self.nones
vec_errors(self) == self.nones

\* ======================================================================
\* StringSummary (summaries/mod.rs)
\* ======================================================================
StringSummary_default == [items |-> EmptyMap, nones |-> 0, errors |-> 0]

\* *map.entry(key).or_insert(0) += n
EntryAdd(map, key, n) ==
    Insert(map, key, (IF key \in DOMAIN map THEN map[key] ELSE 0) + n)

str_add(self, v) ==
    IF IsOk(v)
    THEN IF IsSome(Payload(v))
         THEN [self EXCEPT !.items = EntryAdd(@, Unwrap(Payload(v)), 1)]
         ELSE [self EXCEPT !.nones = @ + 1]
    ELSE [self EXCEPT !.errors = @ + 1]

\* The loop of combine over other.items; a hash map is visited in an order
\* of its own, which the sums do not depend on.
RECURSIVE str_combine_items(_, _, _)
str_combine_items(items, other_items, left) ==
    IF left = {} THEN items
    ELSE LET val == CHOOSE x \in left : TRUE
         IN str_combine_items(EntryAdd(items, val, other_items[val]),
                              other_items, left \ {val})

\* combine that forgets the counters of the other summary.
str_combine_items_only(self, other) ==
    [self EXCEPT !.items = str_combine_items(@, other.items, DOMAIN other.items)]

str_combine(self, other) ==
    [self EXCEPT !.nones = @ + other.nones,
                 !.errors = @ + other.errors,
                 !.items = str_combine_items(@, other.items, DOMAIN other.items)]

RECURSIVE SumValues(_, _)
SumValues(map, left) ==
    IF left = {} THEN 0
    ELSE LET k == CHOOSE x \in left : TRUE
         IN map[k] + SumValues(map, left \ {k})

str_count(self) == SumValues(self.items, DOMAIN self.items)
str_nones(self) == self.nones
str_errors(self) == self.nones
str_count_of(self, val) ==
    IF val \in DOMAIN self.items THEN self.items[val] ELSE 0

\* ======================================================================
\* SpecSum: a sequence of lookup results split over several summaries
\* ======================================================================
\* One run follows one kind of summary.  Every lookup result is added to
\* the summary of the whole sequence and to one of the parts; parts are
\* combined into one another (the argument of combine is moved away).
Vectors == { <<>>, <<1>>, <<2>>, <<2, 3>> }
VecLookups == { Ok(Some(x)) : x \in Vectors } \cup { Ok(None), Err("label source") }
Strings == {"a", "b"}
StrLookups == { Ok(Some(x)) : x \in Strings } \cup { Ok(None), Err("label source") }

Parts == 1..MaxParts

SummaryDefault(kind) ==
    CASE kind = "cat" -> SmallCatSummary_default
      [] kind = "vec" -> VecSummary_default
      [] kind = "str" -> StringSummary_default

InitSum ==
    /\ \E kind \in {"cat", "vec", "str"} :
          sums = [kind  |-> kind,
                  whole |-> SummaryDefault(kind),
                  parts |-> [p \in Parts |-> SummaryDefault(kind)],
                  live  |-> Parts]
    /\ hist = <<>>
    /\ TreeIdle /\ GlueIdle

Added(p, v, whole, part) ==
    /\ Len(hist) < MaxAdds
    /\ p \in sums.live
    /\ sums' = [sums EXCEPT !.whole = whole, !.parts[p] = part]
    /\ hist' = Append(hist, <<p, v>>)
    /\ UNCHANGED <<treeVars, glueVars>>

Combined(a, b, into) ==
    /\ a \in sums.live /\ b \in sums.live /\ a /= b
    /\ sums' = [sums EXCEPT !.parts[a] = into,
                            !.parts[b] = SummaryDefault(sums.kind),
                            !.live = @ \ {b}]
    /\ UNCHANGED <<hist, treeVars, glueVars>>

CatAdd(p, v) ==
    /\ sums.kind = "cat"
    /\ Added(p, v, cat_add(sums.whole, v), cat_add(sums.parts[p], v))
CatCombine(a, b) ==
    /\ sums.kind = "cat"
    /\ Combined(a, b, cat_combine(sums.parts[a], sums.parts[b]))
VecAdd(p, v) ==
    /\ sums.kind = "vec"
    /\ Added(p, v, vec_add(sums.whole, v), vec_add(sums.parts[p], v))
VecCombine(a, b) ==
    /\ sums.kind = "vec"
    /\ Combined(a, b, vec_combine(sums.parts[a], sums.parts[b]))
StrAdd(p, v) ==
    /\ sums.kind = "str"
    /\ Added(p, v, str_add(sums.whole, v), str_add(sums.parts[p], v))
StrCombine(a, b) ==
    /\ sums.kind = "str"
    /\ Combined(a, b, str_combine(sums.parts[a], sums.parts[b]))

NextSum ==
    \/ \E p \in Parts, v \in LabelLookups : CatAdd(p, v)
    \/ \E a, b \in Parts : CatCombine(a, b)
    \/ \E p \in Parts, v \in VecLookups : VecAdd(p, v)
    \/ \E a, b \in Parts : VecCombine(a, b)
    \/ \E p \in Parts, v \in StrLookups : StrAdd(p, v)
    \/ \E a, b \in Parts : StrCombine(a, b)

SpecSum == InitSum /\ [][NextSum]_vars

\* All the parts have been combined into one.
Merged == Cardinality(sums.live) = 1
Result == sums.parts[CHOOSE p \in sums.live : TRUE]
\* How many of the lookups added so far satisfy Is.
HistCount(Is(_)) ==
    SumSeq([i \in 1..Len(hist) |-> IF Is(hist[i][2]) THEN 1 ELSE 0])
IsPresent(v) == IsOk(v) /\ IsSome(Payload(v))
IsAbsent(v) == IsOk(v) /\ ~IsSome(Payload(v))
IsFailure(v) == ~IsOk(v)
\* The parts the lookups went to.
PartsUsed == { hist[i][1] : i \in 1..Len(hist) }


\* What a caller can read off a summary of each kind.
CatObservables(x) ==
    <<cat_count(x), cat_nones(x), cat_errors(x),
      [c \in Categories |-> cat_count_of(x, c)]>>
VecObservables(x) ==
    <<vec_count(x), vec_nones(x), vec_errors(x), x.moment1, x.moment2>>
StrObservables(x) ==
    <<str_count(x), str_nones(x), str_errors(x),
      [c \in Strings |-> str_count_of(x, c)]>>

\* ---------------------------------------------------------------- C5
\* C5: SmallCatSummary merge law: however the sequence of lookups is split
\* over summaries and in whatever order these are combined, the combined
\* summary reports the count(), nones(), errors() and category counts of
\* the summary that was fed the whole sequence.
C5_CatMergeLaw ==
    (sums.kind = "cat" /\ Merged) =>
        CatObservables(Result) = CatObservables(sums.whole)

\* ---------------------------------------------------------------- C6
\* The present vectors added so far all have one width.
SameWidth ==
    \A i, j \in 1..Len(hist) :
        (IsPresent(hist[i][2]) /\ IsPresent(hist[j][2])) =>
            Len(Unwrap(Payload(hist[i][2]))) = Len(Unwrap(Payload(hist[j][2])))

\* C6: VecSummary merge law: for lookups whose vectors have one width,
\* split over summaries (some possibly left empty) and combined in any
\* order, the combined summary reports the count(), nones(), errors(),
\* moment1 and moment2 of the summary that was fed the whole sequence.
C6_VecMergeLaw ==
    (sums.kind = "vec" /\ Merged /\ SameWidth) =>
        VecObservables(Result) = VecObservables(sums.whole)

\* ---------------------------------------------------------------- C7
\* C7: StringSummary merge law: however the sequence of lookups is split
\* over summaries and in whatever order these are combined, the combined
\* summary reports the count(), nones(), errors() and per-string counts of
\* the summary that was fed the whole sequence.
C7_StrMergeLaw ==
    (sums.kind = "str" /\ Merged) =>
        StrObservables(Result) = StrObservables(sums.whole)

\* Two parts were fed a string, an absence and a failure between them and
\* have been combined.
C7_Witness ==
    /\ sums.kind = "str"
    /\ Merged
    /\ Cardinality(PartsUsed) = 2
    /\ HistCount(IsPresent) >= 1
    /\ HistCount(IsAbsent) >= 1
    /\ HistCount(IsFailure) >= 1
    /\ str_count(Result) >= 1
    /\ str_nones(Result) >= 1

\* ---------------------------------------------------------------- C8
\* How often the category c was added.
TimesAdded(c) ==
    SumSeq([i \in 1..Len(hist) |-> IF hist[i][2] = Ok(Some(c)) THEN 1 ELSE 0])

\* C8: a fresh SmallCatSummary fed a sequence of adds reports as count() the
\* number of present values, as nones() the number of absences, and stores
\* for each category the number of times it was added.
C8_CatAddCounts ==
    sums.kind = "cat" =>
        /\ cat_count(sums.whole) = HistCount(IsPresent)
        /\ cat_nones(sums.whole) = HistCount(IsAbsent)
        /\ \A c \in Categories : cat_count_of(sums.whole, c) = TimesAdded(c)

\* ---------------------------------------------------------------- C9
SummaryNones(kind, x) ==
    CASE kind = "cat" -> cat_nones(x)
      [] kind = "vec" -> vec_nones(x)
      [] kind = "str" -> str_nones(x)
SummaryErrors(kind, x) ==
    CASE kind = "cat" -> cat_errors(x)
      [] kind = "vec" -> vec_errors(x)
      [] kind = "str" -> str_errors(x)

\* C9: for each kind of summary, after any sequence of adds to a fresh
\* summary errors() is the number of failed lookups added and nones() the
\* number of absences added (vectors of one width, so that no width
\* mismatch is counted as an error).
C9_NonesAndErrors ==
    SameWidth =>
        /\ SummaryErrors(sums.kind, sums.whole) = HistCount(IsFailure)
        /\ SummaryNones(sums.kind, sums.whole) = HistCount(IsAbsent)

\* The same, one kind of summary at a time.
C9_CatErrors ==
    sums.kind = "cat" => cat_errors(sums.whole) = HistCount(IsFailure)
C9_VecErrors ==
    (sums.kind = "vec" /\ SameWidth) =>
        vec_errors(sums.whole) = HistCount(IsFailure)
C9_StrErrors ==
    sums.kind = "str" => str_errors(sums.whole) = HistCount(IsFailure)


\* ---------------------------------------------------------------- C10
\* The local indexes, in input order, of the listed global indexes that
\* resolve to the source of ordinal k.
RECURSIVE ResolvedLocals(_, _)
ResolvedLocals(k, pns) ==
    IF pns = <<>> THEN <<>>
    ELSE LET a == addresses[Head(pns)]
         IN (IF a[1] = k THEN <<a[2]>> ELSE <<>>) \o ResolvedLocals(k, Tail(pns))

\* label_summary of one source: a fresh summary fed the label lookup of
\* each listed local index.
RECURSIVE src_label_summary_loop(_, _, _)
src_label_summary_loop(source, locals, summary) ==
    IF locals = <<>> THEN summary
    ELSE src_label_summary_loop(source, Tail(locals),
                                cat_add(summary, src_label(source, Head(locals))))
src_label_summary(source, locals) ==
    src_label_summary_loop(source, locals, SmallCatSummary_default)

\* The summaries of the sources k, k+1, ... combined one after the other
\* into acc.
RECURSIVE CombineFrom(_, _, _)
CombineFrom(k, pns, acc) ==
    IF k > Len(data_sources) THEN acc
    ELSE CombineFrom(k + 1, pns,
            cat_combine(acc, src_label_summary(data_sources[k],
                                               ResolvedLocals(k - 1, pns))))

PerSourceCombined(pns) ==
    IF Len(data_sources) = 0 THEN SmallCatSummary_default
    ELSE CombineFrom(2, pns,
            src_label_summary(data_sources[1], ResolvedLocals(0, pns)))

\* C10: for a list of global indexes all below len(), label_summary reports
\* the same count(), nones(), errors() and category counts as the summaries
\* of the sources, each over the local indexes the list resolves to in it,
\* combined.
C10_LabelSummaryIsCombination ==
    (call.op = "label_summary" /\ IsOk(call.ret)) =>
        CatObservables(Payload(call.ret)) =
            CatObservables(PerSourceCombined(call.arg))


\* ---------------------------------------------------------------- C11
DataAccessError(pn) == Err([index |-> pn, reason |-> "address not found"])
\* The listed indexes that no source holds, and the first of them.
Unresolved(pns) == { n \in 1..Len(pns) : pns[n] >= TotalLength }
FirstUnresolved(pns) == pns[Min(Unresolved(pns))]
\* How many of the listed indexes have a failing label lookup in their source.
FailedLookups(pns) ==
    SumSeq([n \in 1..Len(pns) |->
              IF IsOk(src_label(data_sources[addresses[pns[n]][1] + 1],
                                addresses[pns[n]][2]))
              THEN 0 ELSE 1])

\* C11: for an index at or above len(), point and label return a
\* DataAccessError carrying that index and read no source; label_summary
\* over a list holding such an index returns a DataAccessError carrying the
\* first one in input order and no summary.  A failing label lookup of a
\* source is counted in the summary and label_summary still succeeds.
C11_AddressErrors ==
    /\ (call.op \in {"point", "label"} /\ call.arg >= TotalLength) =>
          /\ call.ret = DataAccessError(call.arg)
          /\ call.accessed = <<>>
    /\ (call.op = "label_summary" /\ Unresolved(call.arg) /= {}) =>
          call.ret = DataAccessError(FirstUnresolved(call.arg))
    /\ (call.op = "label_summary" /\ Unresolved(call.arg) = {}) =>
          /\ IsOk(call.ret)
          /\ Payload(call.ret).errors = FailedLookups(call.arg)

\* label_summary was given an index a source holds and then an index no
\* source holds, and failed with the latter after reading the former.
C11_Witness ==
    /\ call.op = "label_summary"
    /\ TotalLength = 2
    /\ call.arg = <<1, 3>>
    /\ call.accessed = <<addresses[1]>>
    /\ call.ret = DataAccessError(3)

\* label_summary succeeded over an index whose label lookup fails in its
\* source, and counted the failure.
C11_WitnessCounted ==
    /\ call.op = "label_summary"
    /\ Len(call.arg) = 2
    /\ IsOk(call.ret)
    /\ FailedLookups(call.arg) = 1
    /\ Payload(call.ret).errors = 1


\* ---------------------------------------------------------------- C12
\* Only present vectors have been added, at least one, all of one width.
OnlyVectors ==
    /\ Len(hist) >= 1
    /\ \A i \in 1..Len(hist) : IsPresent(hist[i][2])
    /\ SameWidth
AddedVector(i) == Unwrap(Payload(hist[i][2]))
AddedWidth == Len(AddedVector(1))

\* C12: after N >= 1 present vectors of one width w were added to a fresh
\* VecSummary, and nothing else, moment1 and moment2 have width w and hold
\* for each component the sum and the sum of the squares over the N inputs.
C12_VecMoments ==
    (sums.kind = "vec" /\ OnlyVectors) =>
        /\ Len(sums.whole.moment1) = AddedWidth
        /\ Len(sums.whole.moment2) = AddedWidth
        /\ \A d \in 1..AddedWidth :
              /\ sums.whole.moment1[d] =
                    SumSeq([i \in 1..Len(hist) |-> AddedVector(i)[d]])
              /\ sums.whole.moment2[d] =
                    SumSeq([i \in 1..Len(hist) |->
                              AddedVector(i)[d] * AddedVector(i)[d]])

\* Three vectors of width 1 were added, not all the same.
C12_Witness ==
    /\ sums.kind = "vec"
    /\ OnlyVectors
    /\ Len(hist) = 3
    /\ sums.whole.moment1 = <<5>>
    /\ sums.whole.moment2 = <<9>>


\* ---------------------------------------------------------------- C13
\* This step is an add; the lookup added is the last of hist'.
IsAddStep == Len(hist') = Len(hist) + 1
LastAdded == hist'[Len(hist')][2]
LastPart == hist'[Len(hist')][1]

\* What an add of the present vector val does to a VecSummary x whose width
\* is fixed (its moments are not empty), leaving y.
WidthRespected(x, val, y) ==
    IF Len(val) /= Len(x.moment1)
    THEN y = [x EXCEPT !.errors = @ + 1]
    ELSE /\ y.moment1 = [d \in 1..Len(val) |-> x.moment1[d] + val[d]]
         /\ y.moment2 = [d \in 1..Len(val) |-> x.moment2[d] + val[d] * val[d]]
         /\ y.nones = x.nones
         /\ y.errors = x.errors

C15_VecCount ==
    (sums.kind = "vec" /\ OnlyVectors) => vec_count(sums.whole) = Len(hist)

\* ---------------------------------------------------------------- C16
\* This step is a.combine(b) for some parts a and b: b is the part moved.
IsCombineStep == sums'.live /= sums.live
MovedPart == CHOOSE b \in sums.live : b \notin sums'.live

\* The moments of two summaries added component by component, the shorter
\* one taken as zero where it has no component.
PadAdd(mine, other) ==
    [d \in 1..(IF Len(mine) >= Len(other) THEN Len(mine) ELSE Len(other)) |->
        (IF d <= Len(mine) THEN mine[d] ELSE 0)
        + (IF d <= Len(other) THEN other[d] ELSE 0)]

\* z is x with the counters of y merged in while a moment component of y
\* was left out.
CountersMergedMomentsDropped(x, y, z) ==
    /\ z.count = x.count + y.count
    /\ z.nones = x.nones + y.nones
    /\ z.errors = x.errors + y.errors
    /\ \/ z.moment1 /= PadAdd(x.moment1, y.moment1)
       \/ z.moment2 /= PadAdd(x.moment2, y.moment2)

\* C16: VecSummary::combine on moments of different widths (an empty
\* receiver and a non-empty argument included) never leaves a summary whose
\* counters were merged while components of the argument's moments were
\* dropped.
C16_VecCombineWidths ==
    [][(sums.kind = "vec" /\ IsCombineStep) =>
          \E a \in sums'.live :
             /\ \A c \in sums'.live \ {a} : sums'.parts[c] = sums.parts[c]
             /\ Len(sums.parts[a].moment1) /= Len(sums.parts[MovedPart].moment1)
                   => ~CountersMergedMomentsDropped(
                          sums.parts[a], sums.parts[MovedPart], sums'.parts[a])]_vars

\* ---------------------------------------------------------------- C17
\* z is x.combine(y) as C17 describes it for SmallCatSummary.
CatCombinedAsClaimed(x, y, z) ==
    /\ \A c \in Categories :
          /\ cat_count_of(z, c) = cat_count_of(x, c) + cat_count_of(y, c)
          /\ Cardinality({ i \in 1..Len(z.items) : z.items[i][1] = c }) <= 1
    /\ cat_count(z) = cat_count(x) + cat_count(y)
    /\ z.nones = x.nones + y.nones
    /\ z.errors = x.errors + y.errors

\* C17: after a.combine(b) on SmallCatSummary the count stored for every
\* value is its count in a plus its count in b, no value is stored twice,
\* count() is the sum of the two, and the nones and errors totals of a are
\* those of a plus those of b.
C17_CatCombine ==
    [][(sums.kind = "cat" /\ IsCombineStep) =>
          \E a \in sums'.live :
             /\ \A c \in sums'.live \ {a} : sums'.parts[c] = sums.parts[c]
             /\ CatCombinedAsClaimed(sums.parts[a], sums.parts[MovedPart],
                                     sums'.parts[a])]_vars


\* ======================================================================
\* SpecTreeAnyOrder: node_component called on the nodes in any order
\* ======================================================================
\* A caller that does not keep to children-before-parent: node_component is
\* invoked for a node whatever the reader holds for its children.
InvokeNode(n) ==
    /\ n \in Nodes(tree) \ computed
    /\ node_plugins' =
          [node_plugins EXCEPT ![Address(tree, n)] =
              node_component(parameters, CoverNode(tree, n), node_plugins)]
    /\ computed' = computed \cup {n}
    /\ UNCHANGED <<tree, parameters, glueVars, sumVars>>

NextTreeAnyOrder == \E n \in 1..MaxNodes : InvokeNode(n)

SpecTreeAnyOrder == InitTree /\ [][NextTreeAnyOrder]_vars

\* ---------------------------------------------------------------- C14
\* The node this step calls node_component for.
Invoked == CHOOSE n \in computed' : n \notin computed

\* C14: node_component, called for a routing node below the budget while
\* the reader holds no value for its nested self-child or for one of its
\* ordinary children, does not return a present value (one that lacks the
\* points of that child).
C14_NoSilentOmission ==
    [][(/\ computed' /= computed
        /\ ~IsLeaf(tree, Invoked)
        /\ coverage_count(tree, Invoked) < parameters.max
        /\ \E c \in Kids(tree, Invoked) :
              ~IsSome(node_plugins[Address(tree, c)]))
       => ~IsSome(node_plugins'[Address(tree, Invoked)])]_vars


\* ---------------------------------------------------------------- C18
\* The values of the listed nodes one after the other.
RECURSIVE ValuesInOrder(_)
\* The value C18 describes for node n, from the topology alone.
RECURSIVE DescribedValue(_, _)
DescribedValue(t, n) ==
    IF IsLeaf(t, n) THEN Append(singletons(t, n), center_index(t, n))
    ELSE singletons(t, n)
         \o DescribedValue(t, NestedChild(t, n))
         \o ValuesInOrder([i \in 1..Len(OrdinaryChildren(t, n)) |->
                              DescribedValue(t, OrdinaryChildren(t, n)[i])])
ValuesInOrder(values) ==
    IF values = <<>> THEN <<>>
    ELSE Head(values) \o ValuesInOrder(Tail(values))

RECURSIVE Subtree(_, _)
Subtree(t, n) == {n} \cup UNION { Subtree(t, c) : c \in Kids(t, n) }
\* The singleton points of the nodes under n and the centers of the leaves
\* under n; no point is in it twice.
SubtreePoints(t, n) ==
    UNION { { singletons(t, m)[k] : k \in 1..t.sing[m] } : m \in Subtree(t, n) }
    \cup { center_index(t, m) : m \in { l \in Subtree(t, n) : IsLeaf(t, l) } }
Range(seq) == { seq[i] : i \in 1..Len(seq) }

\* C18: after a children-before-parent pass a present value is, for a leaf,
\* its singletons followed by its center and, for a routing node, its
\* singletons followed by the value of the nested self-child and of each
\* ordinary child in order, without the node's own center; it holds each
\* singleton point of the subtree and each center of a leaf of the subtree
\* once.
C18_ValueContent ==
    PassDone =>
        \A n \in Nodes(tree) :
            LET v == node_plugins[Address(tree, n)]
            IN IsSome(v) =>
                  /\ Unwrap(v) = DescribedValue(tree, n)
                  /\ Range(Unwrap(v)) = SubtreePoints(tree, n)
                  /\ Len(Unwrap(v)) = Cardinality(SubtreePoints(tree, n))

\* A finished pass where the root, with a singleton, a nested self-child
\* that is itself routing and an ordinary child, holds a value.
C18_Witness ==
    /\ PassDone
    /\ tree.n = 4
    /\ tree.parent = <<0, 1, 1, 2>>
    /\ tree.sing = <<1, 0, 0, 0>>
    /\ IsSome(node_plugins[Address(tree, 1)])
    /\ Len(Unwrap(node_plugins[Address(tree, 1)])) = 3

\* ---------------------------------------------------------------- C19
\* The pass that takes the nodes from the highest number down: one of the
\* children-before-parent schedules.
RECURSIVE DescendingPass(_, _, _, _)
DescendingPass(t, params, n, store) ==
    IF n = 0 THEN store
    ELSE DescendingPass(t, params, n - 1,
            [store EXCEPT ![Address(t, n)] =
                node_component(params, CoverNode(t, n), store)])

\* C19: whatever the order among the nodes of disjoint subtrees, a pass
\* that finalizes each child before its parent stores at every node
\* address the value (present or not, and the same sequence) that any
\* other such pass stores there.
C19_ScheduleIndependent ==
    LET reference == DescendingPass(tree, parameters, tree.n,
                                    [a \in AddressesOf(tree) |-> None])
    IN \A n \in Nodes(tree) :
          node_plugins[Address(tree, n)] =
              IF n \in computed THEN reference[Address(tree, n)] ELSE None

\* A routing node was computed while a leaf with a higher number, outside
\* its subtree, was not yet: an order other than the descending one.
C19_Witness ==
    /\ tree.n = 4
    /\ tree.parent = <<0, 1, 2, 1>>
    /\ computed = {2, 3}
    /\ IsSome(node_plugins[Address(tree, 2)])

\* ---------------------------------------------------------------- C20
\* C20: after a children-before-parent pass, a node that holds a value has
\* children (the nested self-child included) that all hold one, none of
\* them covering more than the node.
C20_PresentUpwardClosed ==
    PassDone =>
        \A n \in Nodes(tree) :
            IsSome(node_plugins[Address(tree, n)]) =>
                \A c \in Kids(tree, n) :
                    /\ IsSome(node_plugins[Address(tree, c)])
                    /\ coverage_count(tree, c) <= coverage_count(tree, n)

\* A finished pass where a routing node with an ordinary child holds a
\* value and the root, above the budget, holds none.
C20_Witness ==
    /\ PassDone
    /\ tree.n = 4
    /\ tree.parent = <<0, 1, 2, 2>>
    /\ IsSome(node_plugins[Address(tree, 2)])
    /\ IsSome(node_plugins[Address(tree, 3)])
    /\ IsSome(node_plugins[Address(tree, 4)])
    /\ ~IsSome(node_plugins[Address(tree, 1)])

=============================================================================
